---- MODULE Spec2Model ----
(***************************************************************************)
(* A model of domain_directory.py: the JSON-backed DomainDirectory store,  *)
(* the file readers (read_txt, read_csv, read_xlsx) behind parse_file, the *)
(* two-hop WHOIS client fetch_whois_data, the prompting loop add_domains   *)
(* and the command line driver main.                                       *)
(*                                                                         *)
(* A Python str is modelled as a sequence of atoms (a character or a fixed *)
(* run of characters); "" is << >>.                                        *)
(***************************************************************************)
EXTENDS Integers, Sequences, FiniteSets, TLC

\* ------------------------------------------------------------------ bounds
\* longest --add list
MaxAdd == 2
\* most objects in the backing file before the run
MaxStored == 2
\* most lines in the authoritative WHOIS response
MaxLines == 3
\* most rows in the first worksheet
MaxRows == 2

\* ----------------------------------------------------------------- strings
None == "None"

Range(s) == {s[i] : i \in 1..Len(s)}

SeqsUpTo(S, n) == UNION {[1..k -> S] : k \in 0..n}

IsSpace(c) == c \in {" ", "\t"}

\* str.lower, atom by atom
LowerAtom(c) ==
  CASE c = "Whois" -> "whois"
    [] c = "WHOIS" -> "whois"
    [] c = "Name Server" -> "name server"
    [] c = "NAME SERVER" -> "name server"
    [] c = "Creation Date" -> "creation date"
    [] c = "Registered On" -> "registered on"
    [] c = "Expiry Date" -> "expiry date"
    [] c = "Expiration Date" -> "expiration date"
    [] c = ".TXT" -> ".txt"
    [] c = ".Csv" -> ".csv"
    [] c = ".XLS" -> ".xls"
    [] c = ".Xlsx" -> ".xlsx"
    [] c = ".PDF" -> ".pdf"
    [] OTHER -> c

lower(s) == [i \in 1..Len(s) |-> LowerAtom(s[i])]

RECURSIVE lstrip(_)
lstrip(s) == IF s # << >> /\ IsSpace(Head(s)) THEN lstrip(Tail(s)) ELSE s

RECURSIVE rstrip(_)
rstrip(s) ==
  IF s # << >> /\ IsSpace(s[Len(s)]) THEN rstrip(SubSeq(s, 1, Len(s) - 1)) ELSE s

\* str.strip
strip(s) == rstrip(lstrip(s))

\* s.startswith(p)
startswith(s, p) == Len(s) >= Len(p) /\ SubSeq(s, 1, Len(p)) = p

\* atom in s
contains(s, c) == c \in Range(s)

\* s.split(c, 1): one part when c does not occur, else the text before and
\* the text after the first c
split1(s, c) ==
  IF ~contains(s, c) THEN <<s>>
  ELSE LET i == CHOOSE k \in 1..Len(s) :
                   s[k] = c /\ \A j \in 1..(k - 1) : s[j] # c
       IN  <<SubSeq(s, 1, i - 1), SubSeq(s, i + 1, Len(s))>>

\* --------------------------------------------------------------- DomainInfo
\* the dataclass fields, in declaration order
FieldNames ==
  << "domain", "appraisal_value", "renewal_status", "expiration_date",
     "name_server", "registration_date", "timestamp", "admin_email",
     "domain_note", "total_search_30d", "total_search_180d",
     "unique_search_30d", "unique_search_180d" >>

Fields == Range(FieldNames)

\* DomainInfo(domain=d): every other field at its default ""
NewInfo(d) == [f \in Fields |-> IF f = "domain" THEN d ELSE << >>]

\* A JSON object is its sequence of <<key, value>> members, in file order.
Keys(obj) == {obj[i][1] : i \in 1..Len(obj)}

\* the value json.load keeps for key k: the last member with that key
Member(obj, k) ==
  obj[CHOOSE i \in 1..Len(obj) :
        obj[i][1] = k /\ \A j \in (i + 1)..Len(obj) : obj[j][1] # k][2]

\* a constructor that insists on every field
InfoRaises_strict(obj) == Keys(obj) # Fields

\* DomainInfo(**d) raises TypeError on an unexpected keyword and on a
\* missing required argument (domain is the only field without a default)
InfoRaises(obj) == ~(Keys(obj) \subseteq Fields) \/ "domain" \notin Keys(obj)

\* DomainInfo(**d)
InfoFromDict(obj) ==
  [f \in Fields |-> IF f \in Keys(obj) THEN Member(obj, f) ELSE << >>]

\* asdict(d): the fields in declaration order
asdict(d) == [i \in 1..Len(FieldNames) |-> <<FieldNames[i], d[FieldNames[i]]>>]

\* ---------------------------------------------------------- DomainDirectory
\* The backing file: exists, and the JSON array it holds.
NoFile == [exists |-> FALSE, data |-> << >>]

\* DomainDirectory.load raises when a stored object does not construct
load_raises(file) ==
  file.exists /\ \E i \in 1..Len(file.data) : InfoRaises(file.data[i])

\* DomainDirectory.load: self.domains afterwards (it starts as [])
load(file) ==
  IF file.exists
  THEN [i \in 1..Len(file.data) |-> InfoFromDict(file.data[i])]
  ELSE << >>

\* a save that writes only the newest record
save_newest_only(doms) ==
  [exists |-> TRUE,
   data |-> IF doms = << >> THEN << >> ELSE <<asdict(doms[Len(doms)])>>]

\* DomainDirectory.save: the file afterwards (a full overwrite)
save(doms) == [exists |-> TRUE, data |-> [i \in 1..Len(doms) |-> asdict(doms[i])]]

\* DomainDirectory.add: self.domains afterwards
add(doms, info) == Append(doms, info)

\* ------------------------------------------------------------------ readers
\* read_txt: one entry per line that is not blank, stripped
read_txt(lines) ==
  LET keep == SelectSeq(lines, LAMBDA l : strip(l) # << >>)
  IN  [i \in 1..Len(keep) |-> strip(keep[i])]

\* read_csv: the first field of every row that has a field, as it stands
read_csv(rows) ==
  LET keep == SelectSeq(rows, LAMBDA r : r # << >>)
  IN  [i \in 1..Len(keep) |-> keep[i][1]]

\* A cell <c t=..> with its <v> child: v.kind is "absent" (no <v>), "empty"
\* (<v/>, text None) or "text" (v.s).
NoV == [kind |-> "absent", s |-> << >>]
EmptyV == [kind |-> "empty", s |-> << >>]
TextV(s) == [kind |-> "text", s |-> s]
Cell(t, v) == [t |-> t, v |-> v]

DigitAtoms == {"-1", "0", "1", "2", "7"}

IntOfAtom(c) ==
  CASE c = "-1" -> -1 [] c = "0" -> 0 [] c = "1" -> 1 [] c = "2" -> 2
    [] OTHER -> 7

\* int(text) raises on None and on text that is no integer literal
IntRaises(v) ==
  v.kind # "text" \/ Len(strip(v.s)) # 1 \/ strip(v.s)[1] \notin DigitAtoms

IntOf(v) == IntOfAtom(strip(v.s)[1])

\* shared[idx] raises IndexError outside -len..len-1
IndexRaises(shared, idx) == idx >= Len(shared) \/ idx < -Len(shared)

\* shared[idx], a negative idx counting from the end
Index(shared, idx) ==
  IF idx >= 0 THEN shared[idx + 1] ELSE shared[Len(shared) + idx + 1]

\* lines 99-108 raise for this first cell
CellRaises(cell, shared) ==
  /\ cell.t = "s"
  /\ cell.v.kind # "absent"
  /\ (IntRaises(cell.v) \/ IndexRaises(shared, IntOf(cell.v)))

\* lines 99-108: value of the first cell
CellValue(cell, shared) ==
  IF cell.t = "s"
  THEN IF cell.v.kind = "absent" THEN << >> ELSE Index(shared, IntOf(cell.v))
  ELSE IF cell.v.kind = "text" THEN cell.v.s ELSE << >>

\* line 109: the guard of the append
KeepsValue(value) == value # << >>

\* lines 95-110: the row loop
RECURSIVE ScanRows(_, _, _)
ScanRows(rows, shared, acc) ==
  IF rows = << >> THEN [raised |-> FALSE, value |-> acc]
  ELSE LET cells == Head(rows) IN
       IF cells = << >> THEN ScanRows(Tail(rows), shared, acc)
       ELSE IF CellRaises(cells[1], shared)
            THEN [raised |-> TRUE, value |-> << >>]
            ELSE LET value == CellValue(cells[1], shared) IN
                 ScanRows(Tail(rows), shared,
                          IF KeepsValue(value) THEN Append(acc, strip(value))
                          ELSE acc)

\* An .xlsx file: zip is whether it opens as an archive; shared and sheet are
\* the parts xl/sharedStrings.xml and xl/worksheets/sheet1.xml: present,
\* xml (well-formed), and the <t> texts or the rows of <c> cells.
NoPart == [present |-> FALSE, xml |-> TRUE, items |-> << >>]
Part(items) == [present |-> TRUE, xml |-> TRUE, items |-> items]
BadPart == [present |-> TRUE, xml |-> FALSE, items |-> << >>]
Book(shared, sheet) == [zip |-> TRUE, shared |-> shared, sheet |-> sheet]
BadZip == [zip |-> FALSE, shared |-> NoPart, sheet |-> NoPart]

\* read_xlsx: raised, or the returned list
read_xlsx(book) ==
  IF ~book.zip THEN [raised |-> TRUE, value |-> << >>]
  ELSE IF book.shared.present /\ ~book.shared.xml
       THEN [raised |-> TRUE, value |-> << >>]
  ELSE IF ~book.sheet.present THEN [raised |-> FALSE, value |-> << >>]
  ELSE IF ~book.sheet.xml THEN [raised |-> TRUE, value |-> << >>]
  ELSE ScanRows(book.sheet.items,
                IF book.shared.present THEN book.shared.items ELSE << >>,
                << >>)

ExtAtoms ==
  {".txt", ".TXT", ".csv", ".Csv", ".xls", ".XLS", ".xlsx", ".Xlsx", ".pdf",
   ".PDF"}

\* os.path.splitext(path)[1]: a leading-dot name has no extension
splitext(path) ==
  IF Len(path) > 1 /\ path[Len(path)] \in ExtAtoms
  THEN <<path[Len(path)]>> ELSE << >>

\* A file named by --file: its path and, by the reader that will open it,
\* its lines, its csv rows or its workbook.
File(path, lines, rows, book) ==
  [path |-> path, lines |-> lines, rows |-> rows, book |-> book]

\* a dispatcher that reads any other extension as text
parse_file_default_txt(file) ==
  LET ext == lower(splitext(file.path)) IN
  IF ext = <<".csv">>
  THEN [raised |-> FALSE, printed |-> FALSE, value |-> read_csv(file.rows)]
  ELSE IF ext \in {<<".xls">>, <<".xlsx">>}
  THEN LET r == read_xlsx(file.book) IN
       [raised |-> FALSE, printed |-> r.raised,
        value |-> IF r.raised THEN << >> ELSE r.value]
  ELSE [raised |-> FALSE, printed |-> FALSE, value |-> read_txt(file.lines)]

\* a dispatcher that lets the spreadsheet reader's exception through
parse_file_uncaught(file) ==
  LET ext == lower(splitext(file.path)) IN
  IF ext = <<".txt">>
  THEN [raised |-> FALSE, printed |-> FALSE, value |-> read_txt(file.lines)]
  ELSE IF ext = <<".csv">>
  THEN [raised |-> FALSE, printed |-> FALSE, value |-> read_csv(file.rows)]
  ELSE IF ext \in {<<".xls">>, <<".xlsx">>}
  THEN [raised |-> read_xlsx(file.book).raised, printed |-> FALSE,
        value |-> read_xlsx(file.book).value]
  ELSE [raised |-> TRUE, printed |-> FALSE, value |-> << >>]

\* parse_file: raised (ValueError), printed (the xlsx failure message), value
parse_file(file) ==
  LET ext == lower(splitext(file.path)) IN
  IF ext = <<".txt">>
  THEN [raised |-> FALSE, printed |-> FALSE, value |-> read_txt(file.lines)]
  ELSE IF ext = <<".csv">>
  THEN [raised |-> FALSE, printed |-> FALSE, value |-> read_csv(file.rows)]
  ELSE IF ext \in {<<".xls">>, <<".xlsx">>}
  THEN LET r == read_xlsx(file.book) IN
       IF r.raised
       THEN [raised |-> FALSE, printed |-> TRUE, value |-> << >>]
       ELSE [raised |-> FALSE, printed |-> FALSE, value |-> r.value]
  ELSE [raised |-> TRUE, printed |-> FALSE, value |-> << >>]

\* -------------------------------------------------------------------- WHOIS
\* datetime.utcnow().isoformat()
utcnow == <<"2026-01-01T00:00:00">>

\* lines 132-136: the first line starting with "whois:" names the server
RECURSIVE FindWhoisServer(_)
FindWhoisServer(lines) ==
  IF lines = << >> THEN [found |-> FALSE, host |-> << >>]
  ELSE IF startswith(lower(Head(lines)), <<"whois", ":">>)
       THEN [found |-> TRUE, host |-> strip(split1(Head(lines), ":")[2])]
       ELSE FindWhoisServer(Tail(lines))

\* a test for None only
Truthy_found(server) == server.found

\* line 137: if whois_server
Truthy(server) == server.found /\ server.host # << >>

IsRegistration(line) ==
  contains(line, "Creation Date") \/ contains(line, "Registered On")

IsExpiration(line) ==
  contains(line, "Expiry Date") \/ contains(line, "Expiration Date")

IsNameServer(line) == startswith(lower(line), <<"name server">>)

\* lines 149-153: the branch the line takes
Branch(line) ==
  IF IsRegistration(line) THEN "registration_date"
  ELSE IF IsExpiration(line) THEN "expiration_date"
  ELSE IF IsNameServer(line) THEN "name_server"
  ELSE "none"

\* line.split(':', 1)[1] raises IndexError when the line has no colon
AfterColonRaises(line) == Len(split1(line, ":")) < 2

AfterColon(line) == strip(split1(line, ":")[2])

\* a name server that replaces the ones before it
JoinNameServer_overwrite(old, ns) == ns

\* lines 155-158
JoinNameServer(old, ns) == IF old # << >> THEN old \o <<",">> \o ns ELSE ns

\* lines 149-158: one line of the authoritative response
ScanLine(info, line) ==
  LET b == Branch(line) IN
  IF b = "none" THEN [raised |-> FALSE, info |-> info]
  ELSE IF AfterColonRaises(line) THEN [raised |-> TRUE, info |-> info]
  ELSE IF b = "name_server"
       THEN [raised |-> FALSE,
             info |-> [info EXCEPT !.name_server =
                                     JoinNameServer(@, AfterColon(line))]]
       ELSE [raised |-> FALSE, info |-> [info EXCEPT ![b] = AfterColon(line)]]

\* lines 148-158: the scan stops at the line that raises
RECURSIVE ScanLines(_, _)
ScanLines(info, lines) ==
  IF lines = << >> THEN [raised |-> FALSE, info |-> info]
  ELSE LET r == ScanLine(info, Head(lines)) IN
       IF r.raised THEN r ELSE ScanLines(r.info, Tail(lines))

\* What the network does during one call: c1, c2 whether create_connection
\* succeeds; x1, x2 whether sendall and the recv loop succeed; r1, r2 the
\* lines of the two responses.
Net(c1, x1, r1, c2, x2, r2) ==
  [c1 |-> c1, x1 |-> x1, r1 |-> r1, c2 |-> c2, x2 |-> x2, r2 |-> r2]

\* lines 116-117
FreshInfo(d) == [NewInfo(d) EXCEPT !.timestamp = utcnow]

\* fetch_whois_data: the record returned, the connections it asked for
\* (conns) and whether the except clause ran (caught)
fetch_whois_data(d, net) ==
  LET info == FreshInfo(d)
      server == FindWhoisServer(net.r1)
      scan == ScanLines(info, net.r2)
  IN  IF ~net.c1 \/ ~net.x1 THEN [info |-> info, conns |-> 1, caught |-> TRUE]
      ELSE IF ~Truthy(server) THEN [info |-> info, conns |-> 1, caught |-> FALSE]
      ELSE IF ~net.c2 \/ ~net.x2
           THEN [info |-> info, conns |-> 2, caught |-> TRUE]
      ELSE [info |-> scan.info, conns |-> 2, caught |-> scan.raised]

\* ------------------------------------------------------------- add_domains
\* lines 170-176: the nested prompt(field_name, current) on one input() line
prompt(current, answer) ==
  LET value == strip(answer) IN IF value # << >> THEN value ELSE current

\* the fields prompted for, in the order of lines 177-187
PromptFields ==
  << "appraisal_value", "renewal_status", "expiration_date", "name_server",
     "registration_date", "total_search_30d", "total_search_180d",
     "unique_search_30d", "unique_search_180d" >>

\* lines 177-187: answers[i] is the input() line of the i-th prompt
RECURSIVE Enriched(_, _, _)
Enriched(rec, answers, i) ==
  IF i > Len(PromptFields) THEN rec
  ELSE Enriched([rec EXCEPT ![PromptFields[i]] = prompt(@, answers[i])],
                answers, i + 1)

\* ------------------------------------------------------------------- state
VARIABLES
  pc,          \* where main is
  args,        \* the parsed command line
  disk,        \* the backing file domains.json
  disk0,       \* the backing file before the run
  domains,     \* directory.domains
  loaded,      \* directory.domains as load left it
  toAdd,       \* domains_to_add
  idx,         \* position of add_domains in toAdd
  info,        \* the record add_domains is working on
  added,       \* the records handed to DomainDirectory.add, in call order
  out,         \* the dicts printed by --list
  listed,      \* whether the --list loop has run
  failure,     \* the exception that ended main, or None
  reported,    \* whether parse_file printed its xlsx failure message
  netConns,    \* WHOIS connections asked for so far
  diskReads,   \* opens of the backing file for reading
  diskWrites,  \* opens of the backing file for writing
  wpc,         \* where a fetch_whois_data call is
  wdomain,     \* its argument
  wnet,        \* what the network does during the call
  winfo,       \* its info
  wserver,     \* its whois_server
  sock1,       \* the connection to whois.iana.org
  sock2,       \* the connection to the referred server
  wcaught,     \* whether its except clause ran, and for which step
  xpc,         \* where a read_xlsx call is
  xbook,       \* its file
  xres         \* its result

mainVars ==
  << pc, args, disk, disk0, domains, loaded, toAdd, idx, info, added, out,
     listed, failure, reported, netConns, diskReads, diskWrites >>
whoisVars == << wpc, wdomain, wnet, winfo, wserver, sock1, sock2, wcaught >>
xlsxVars == << xpc, xbook, xres >>
vars == << mainVars, whoisVars, xlsxVars >>

\* ------------------------------------------------------------------ inputs
NamePool == {<<"a.com">>, <<"b.org">>}

\* args.add is None without --add and a list, maybe empty, with it
NoAdd == [given |-> FALSE, names |-> << >>]
AddArgs == {NoAdd} \cup {[given |-> TRUE, names |-> n] : n \in SeqsUpTo(NamePool, MaxAdd)}

NoFileArg == [given |-> FALSE, file |-> File(<< >>, << >>, << >>, BadZip)]
FileArg(f) == [given |-> TRUE, file |-> f]

OneRowBook ==
  Book(Part(<< <<"e.dev">> >>),
       Part(<< <<Cell("s", TextV(<<"0">>)), Cell("n", TextV(<<"9">>))>> >>))

\* a shared-string index past the table
BadIndexBook ==
  Book(Part(<< <<"e.dev">> >>),
       Part(<< <<Cell("s", TextV(<<"0">>))>>, <<Cell("s", TextV(<<"7">>))>> >>))

SupportedFiles ==
  { File(<<"list", ".TXT">>, << <<" ", "c.io", " ">>, <<" ">> >>, << >>, BadZip),
    File(<<"empty", ".txt">>, << >>, << >>, BadZip),
    File(<<"list", ".csv">>, << >>, << <<<<" ", "d.net", " ">>, <<"x">>>>, << >> >>, BadZip),
    File(<<"book", ".Xlsx">>, << >>, << >>, OneRowBook),
    File(<<"bad", ".xls">>, << >>, << >>, BadZip),
    File(<<"bad", ".xlsx">>, << >>, << >>, BadIndexBook) }

UnsupportedFiles ==
  { File(<<"notes", ".PDF">>, << <<"c.io">> >>, << >>, BadZip),
    File(<<"README">>, << <<"c.io">> >>, << >>, BadZip),
    File(<<".txt">>, << <<"c.io">> >>, << >>, BadZip) }

FileArgs == {NoFileArg} \cup {FileArg(f) : f \in SupportedFiles \cup UnsupportedFiles}

Args(a, f, l) == [add |-> a, file |-> f, list |-> l]

\* stored objects: as save writes them, with the members reversed, without
\* the optional members, without domain, and with a member no field matches
Reverse(s) == [i \in 1..Len(s) |-> s[Len(s) + 1 - i]]
OldInfo == [FreshInfo(<<"old.net">>) EXCEPT !.name_server = <<"ns0">>]
ObjSaved == asdict(OldInfo)
ObjReversed == Reverse(asdict(OldInfo))
ObjDomainOnly == << <<"domain", <<"old.net">>>> >>
ObjNoDomain == SelectSeq(asdict(OldInfo), LAMBDA m : m[1] # "domain")
ObjExtra == Append(asdict(OldInfo), <<"registrar", <<"x">>>>)
ObjOneMissing == SelectSeq(asdict(OldInfo), LAMBDA m : m[1] # "domain_note")
StoredObjects ==
  {ObjSaved, ObjReversed, ObjDomainOnly, ObjNoDomain, ObjExtra, ObjOneMissing}

FileOf(data) == [exists |-> TRUE, data |-> data]
StoredFiles == {NoFile} \cup {FileOf(d) : d \in SeqsUpTo(StoredObjects, MaxStored)}
MainFiles ==
  {NoFile, FileOf(<< >>), FileOf(<<ObjSaved>>), FileOf(<<ObjDomainOnly>>),
   FileOf(<<ObjExtra>>)}

\* the networks of a run of main: offline, no referral, and a full answer
Referral == << <<"refer">>, <<"whois", ":", " ", "whois.nic">> >>
Answer ==
  << <<"Creation Date", ":", " ", "2001">>, <<"Name Server", ":", "ns1">> >>
MainNets ==
  { Net(FALSE, TRUE, << >>, TRUE, TRUE, << >>),
    Net(TRUE, TRUE, Referral, TRUE, TRUE, Answer) }

\* the input() lines of one domain: Enter nine times, or some overrides
NoAnswers == [i \in 1..9 |-> << >>]
SomeAnswers ==
  [i \in 1..9 |-> IF i = 1 THEN <<" ", "100", " ">>
                  ELSE IF i = 4 THEN <<"ns9">>
                  ELSE IF i = 5 THEN <<" ">> ELSE << >>]
PromptScripts == {NoAnswers, SomeAnswers}

WhoisIdle ==
  /\ wpc = "idle"
  /\ wdomain = << >>
  /\ wnet = Net(FALSE, FALSE, << >>, FALSE, FALSE, << >>)
  /\ winfo = NewInfo(<< >>)
  /\ wserver = [found |-> FALSE, host |-> << >>]
  /\ sock1 = "none"
  /\ sock2 = "none"
  /\ wcaught = None

XlsxIdle ==
  /\ xpc = "idle"
  /\ xbook = BadZip
  /\ xres = [raised |-> FALSE, value |-> << >>]

MainStart(a, d) ==
  /\ pc = "start"
  /\ args = a
  /\ disk = d
  /\ disk0 = d
  /\ domains = << >>
  /\ loaded = << >>
  /\ toAdd = << >>
  /\ idx = 1
  /\ info = NewInfo(<< >>)
  /\ added = << >>
  /\ out = << >>
  /\ listed = FALSE
  /\ failure = None
  /\ reported = FALSE
  /\ netConns = 0
  /\ diskReads = 0
  /\ diskWrites = 0

Init ==
  /\ \E a \in AddArgs, f \in FileArgs, l \in BOOLEAN, d \in MainFiles :
       MainStart(Args(a, f, l), d)
  /\ WhoisIdle
  /\ XlsxIdle

\* -------------------------------------------------------------------- main
\* a constructor that writes the store back once loaded
Construct_saving ==
  /\ pc = "start"
  /\ ~load_raises(disk)
  /\ domains' = load(disk)
  /\ loaded' = load(disk)
  /\ diskReads' = diskReads + (IF disk.exists THEN 1 ELSE 0)
  /\ disk' = save(load(disk))
  /\ diskWrites' = diskWrites + 1
  /\ pc' = "collect"
  /\ UNCHANGED << whoisVars, xlsxVars, reported >>
  /\ UNCHANGED << args, disk0, toAdd, idx, info, added, out, listed,
                  failure, netConns >>

\* line 214: DomainDirectory() loads the backing file
Construct ==
  /\ pc = "start"
  /\ ~load_raises(disk)
  /\ domains' = load(disk)
  /\ loaded' = load(disk)
  /\ diskReads' = diskReads + (IF disk.exists THEN 1 ELSE 0)
  /\ pc' = "collect"
  /\ UNCHANGED << whoisVars, xlsxVars, reported >>
  /\ UNCHANGED << args, disk, disk0, toAdd, idx, info, added, out, listed,
                  failure, netConns, diskWrites >>

\* line 214, load raising: main ends with the exception
ConstructRaises ==
  /\ pc = "start"
  /\ load_raises(disk)
  /\ diskReads' = diskReads + 1
  /\ failure' = "TypeError"
  /\ pc' = "exited"
  /\ UNCHANGED << whoisVars, xlsxVars, reported >>
  /\ UNCHANGED << args, disk, disk0, domains, loaded, toAdd, idx, info, added,
                  out, listed, netConns, diskWrites >>

\* lines 216-220: domains_to_add
Collected ==
  (IF args.add.given THEN args.add.names ELSE << >>)
    \o (IF args.file.given THEN parse_file(args.file.file).value ELSE << >>)

\* lines 216-223 up to the call of add_domains
Collect ==
  /\ pc = "collect"
  /\ ~(args.file.given /\ parse_file(args.file.file).raised)
  /\ toAdd' = Collected
  /\ idx' = 1
  /\ pc' = IF Collected # << >> THEN "resolve" ELSE "list"
  /\ reported' = (args.file.given /\ parse_file(args.file.file).printed)
  /\ UNCHANGED << whoisVars, xlsxVars >>
  /\ UNCHANGED << args, disk, disk0, domains, loaded, info, added, out, listed,
                  failure, netConns, diskReads, diskWrites >>

\* line 220, parse_file raising ValueError: main ends with the exception
CollectRaises ==
  /\ pc = "collect"
  /\ args.file.given /\ parse_file(args.file.file).raised
  /\ failure' = "ValueError"
  /\ pc' = "exited"
  /\ UNCHANGED << whoisVars, xlsxVars, reported >>
  /\ UNCHANGED << args, disk, disk0, domains, loaded, toAdd, idx, info, added,
                  out, listed, netConns, diskReads, diskWrites >>

\* line 167
Resolve ==
  /\ pc = "resolve"
  /\ \E net \in MainNets :
       LET r == fetch_whois_data(toAdd[idx], net) IN
       /\ info' = r.info
       /\ netConns' = netConns + r.conns
  /\ pc' = "enrich"
  /\ UNCHANGED << whoisVars, xlsxVars, reported >>
  /\ UNCHANGED << args, disk, disk0, domains, loaded, toAdd, idx, added, out,
                  listed, failure, diskReads, diskWrites >>

\* lines 169-187
Enrich ==
  /\ pc = "enrich"
  /\ \E answers \in PromptScripts : info' = Enriched(info, answers, 1)
  /\ pc' = "store"
  /\ UNCHANGED << whoisVars, xlsxVars, reported >>
  /\ UNCHANGED << args, disk, disk0, domains, loaded, toAdd, idx, added, out,
                  listed, failure, netConns, diskReads, diskWrites >>

\* an add that saves before it appends
Store_save_before_append ==
  /\ pc = "store"
  /\ domains' = add(domains, info)
  /\ disk' = save(domains)
  /\ diskWrites' = diskWrites + 1
  /\ added' = Append(added, info)
  /\ idx' = idx + 1
  /\ pc' = IF idx < Len(toAdd) THEN "resolve" ELSE "list"
  /\ UNCHANGED << whoisVars, xlsxVars, reported >>
  /\ UNCHANGED << args, disk0, loaded, toAdd, info, out, listed, failure,
                  netConns, diskReads >>

\* lines 188-189 and the loop's step
Store ==
  /\ pc = "store"
  /\ domains' = add(domains, info)
  /\ disk' = save(add(domains, info))
  /\ diskWrites' = diskWrites + 1
  /\ added' = Append(added, info)
  /\ idx' = idx + 1
  /\ pc' = IF idx < Len(toAdd) THEN "resolve" ELSE "list"
  /\ UNCHANGED << whoisVars, xlsxVars, reported >>
  /\ UNCHANGED << args, disk0, loaded, toAdd, info, out, listed, failure,
                  netConns, diskReads >>

\* lines 225-227
List ==
  /\ pc = "list"
  /\ out' = IF args.list THEN [i \in 1..Len(domains) |-> asdict(domains[i])]
            ELSE << >>
  /\ listed' = args.list
  /\ pc' = "exited"
  /\ UNCHANGED << whoisVars, xlsxVars, reported >>
  /\ UNCHANGED << args, disk, disk0, domains, loaded, toAdd, idx, info, added,
                  failure, netConns, diskReads, diskWrites >>

Next ==
  \/ Construct
  \/ ConstructRaises
  \/ Collect
  \/ CollectRaises
  \/ Resolve
  \/ Enrich
  \/ Store
  \/ List

Spec == Init /\ [][Next]_vars

\* the same driver over more backing files and fewer command lines
LoadArgs ==
  { Args([given |-> TRUE, names |-> << <<"a.com">>, <<"b.org">> >>], NoFileArg, TRUE),
    Args([given |-> TRUE, names |-> << <<"a.com">> >>],
         FileArg(File(<<"list", ".TXT">>, << <<" ", "c.io", " ">> >>, << >>, BadZip)),
         FALSE),
    Args(NoAdd, FileArg(File(<<"notes", ".PDF">>, << >>, << >>, BadZip)), TRUE) }

InitLoad ==
  /\ \E a \in LoadArgs, d \in StoredFiles : MainStart(a, d)
  /\ WhoisIdle
  /\ XlsxIdle

SpecLoad == InitLoad /\ [][Next]_vars

\* ------------------------------------------- fetch_whois_data, step by step
RootResponses ==
  { << <<"refer">>, <<"comment">> >>,
    << <<" ", "whois", ":", "whois.nic">> >>,
    << <<"whois", ":", " ">> >>,
    << <<"Whois", ":">>, <<"whois", ":", "whois.nic">> >>,
    Referral,
    << <<"WHOIS", ":", "whois.nic", " ">>, <<"whois", ":", "other.nic">> >> }

LineSamples ==
  { <<"Creation Date", ":", " ", "2001">>,
    <<"Registry", "Expiry Date", ":", " ", "2030">>,
    <<"Expiration Date", ":", "2031", ":", "00">>,
    <<"Name Server", ":", " ", "ns1">>,
    <<"name server", ":", "ns2", " ">>,
    <<"NAME SERVER", ":">>,
    <<"Name Server">>,
    <<"Name Server", "Expiry Date", ":", "2040">>,
    <<"Registered On", "Expiration Date", ":", "1999">>,
    <<"comment">> }

AuthResponses == SeqsUpTo(LineSamples, MaxLines)

WhoisNets ==
  {Net(FALSE, TRUE, << >>, TRUE, TRUE, << >>), Net(TRUE, FALSE, << >>, TRUE, TRUE, << >>)}
    \cup {Net(TRUE, TRUE, r1, FALSE, TRUE, << >>) : r1 \in RootResponses}
    \cup {Net(TRUE, TRUE, r1, TRUE, FALSE, << >>) : r1 \in RootResponses}
    \cup {Net(TRUE, TRUE, r1, TRUE, TRUE, Answer) : r1 \in RootResponses}
    \cup {Net(TRUE, TRUE, r1, TRUE, TRUE, r2) :
            r1 \in {Referral, << <<"refer">>, <<"comment">> >>}, r2 \in AuthResponses}

InitWhois ==
  /\ MainStart(Args(NoAdd, NoFileArg, FALSE), NoFile)
  /\ XlsxIdle
  /\ wpc = "call"
  /\ wdomain \in NamePool
  /\ wnet \in WhoisNets
  /\ winfo = NewInfo(<< >>)
  /\ wserver = [found |-> FALSE, host |-> << >>]
  /\ sock1 = "none"
  /\ sock2 = "none"
  /\ wcaught = None

\* lines 116-117
W_Begin ==
  /\ wpc = "call"
  /\ winfo' = FreshInfo(wdomain)
  /\ wpc' = "connect1"
  /\ UNCHANGED << mainVars, xlsxVars, wdomain, wnet, wserver, sock1, sock2, wcaught >>

\* line 122
W_Connect1 ==
  /\ wpc = "connect1"
  /\ wnet.c1
  /\ sock1' = "open"
  /\ wpc' = "transfer1"
  /\ UNCHANGED << mainVars, xlsxVars, wdomain, wnet, winfo, wserver, sock2, wcaught >>

\* line 122 raising (refused, unreachable, timed out)
W_Connect1Fails ==
  /\ wpc = "connect1"
  /\ ~wnet.c1
  /\ sock1' = "failed"
  /\ wcaught' = "connect1"
  /\ wpc' = "except"
  /\ UNCHANGED << mainVars, xlsxVars, wdomain, wnet, winfo, wserver, sock2 >>

\* lines 123-129: the request sent and the response read to its end
W_Transfer1 ==
  /\ wpc = "transfer1"
  /\ wnet.x1
  /\ wpc' = "close1"
  /\ UNCHANGED << mainVars, xlsxVars, wdomain, wnet, winfo, wserver, sock1, sock2, wcaught >>

\* lines 123-129 raising (send or receive error, timeout)
W_Transfer1Fails ==
  /\ wpc = "transfer1"
  /\ ~wnet.x1
  /\ wcaught' = "transfer1"
  /\ wpc' = "except"
  /\ UNCHANGED << mainVars, xlsxVars, wdomain, wnet, winfo, wserver, sock1, sock2 >>

\* lines 130-137
W_Close1 ==
  /\ wpc = "close1"
  /\ sock1' = "closed"
  /\ wserver' = FindWhoisServer(wnet.r1)
  /\ wpc' = IF Truthy(FindWhoisServer(wnet.r1)) THEN "connect2" ELSE "return"
  /\ UNCHANGED << mainVars, xlsxVars, wdomain, wnet, winfo, sock2, wcaught >>

\* line 138
W_Connect2 ==
  /\ wpc = "connect2"
  /\ wnet.c2
  /\ sock2' = "open"
  /\ wpc' = "transfer2"
  /\ UNCHANGED << mainVars, xlsxVars, wdomain, wnet, winfo, wserver, sock1, wcaught >>

\* line 138 raising
W_Connect2Fails ==
  /\ wpc = "connect2"
  /\ ~wnet.c2
  /\ sock2' = "failed"
  /\ wcaught' = "connect2"
  /\ wpc' = "except"
  /\ UNCHANGED << mainVars, xlsxVars, wdomain, wnet, winfo, wserver, sock1 >>

\* lines 139-145
W_Transfer2 ==
  /\ wpc = "transfer2"
  /\ wnet.x2
  /\ wpc' = "close2"
  /\ UNCHANGED << mainVars, xlsxVars, wdomain, wnet, winfo, wserver, sock1, sock2, wcaught >>

\* lines 139-145 raising
W_Transfer2Fails ==
  /\ wpc = "transfer2"
  /\ ~wnet.x2
  /\ wcaught' = "transfer2"
  /\ wpc' = "except"
  /\ UNCHANGED << mainVars, xlsxVars, wdomain, wnet, winfo, wserver, sock1, sock2 >>

\* line 146
W_Close2 ==
  /\ wpc = "close2"
  /\ sock2' = "closed"
  /\ wpc' = "scan"
  /\ UNCHANGED << mainVars, xlsxVars, wdomain, wnet, winfo, wserver, sock1, wcaught >>

\* lines 147-158, the scan reaching the last line
W_Scan ==
  /\ wpc = "scan"
  /\ ~ScanLines(winfo, wnet.r2).raised
  /\ winfo' = ScanLines(winfo, wnet.r2).info
  /\ wpc' = "return"
  /\ UNCHANGED << mainVars, xlsxVars, wdomain, wnet, wserver, sock1, sock2, wcaught >>

\* lines 147-158, a line raising IndexError: info keeps what was set so far
W_ScanRaises ==
  /\ wpc = "scan"
  /\ ScanLines(winfo, wnet.r2).raised
  /\ winfo' = ScanLines(winfo, wnet.r2).info
  /\ wcaught' = "scan"
  /\ wpc' = "except"
  /\ UNCHANGED << mainVars, xlsxVars, wdomain, wnet, wserver, sock1, sock2 >>

\* an except clause for socket errors only: the IndexError of the scan leaves
W_Except_socket_only ==
  /\ wpc = "except"
  /\ wpc' = IF wcaught = "scan" THEN "raised" ELSE "return"
  /\ UNCHANGED << mainVars, xlsxVars, wdomain, wnet, winfo, wserver, sock1, sock2, wcaught >>

\* lines 159-161: except Exception: pass
W_Except ==
  /\ wpc = "except"
  /\ wpc' = "return"
  /\ UNCHANGED << mainVars, xlsxVars, wdomain, wnet, winfo, wserver, sock1, sock2, wcaught >>

\* line 162
W_Return ==
  /\ wpc = "return"
  /\ wpc' = "returned"
  /\ UNCHANGED << mainVars, xlsxVars, wdomain, wnet, winfo, wserver, sock1, sock2, wcaught >>

NextWhois ==
  \/ W_Begin
  \/ W_Connect1
  \/ W_Connect1Fails
  \/ W_Transfer1
  \/ W_Transfer1Fails
  \/ W_Close1
  \/ W_Connect2
  \/ W_Connect2Fails
  \/ W_Transfer2
  \/ W_Transfer2Fails
  \/ W_Close2
  \/ W_Scan
  \/ W_ScanRaises
  \/ W_Except
  \/ W_Return

SpecWhois == InitWhois /\ [][NextWhois]_vars

\* the steps and the function fetch_whois_data describe the same call
StepsAgreeWithFunction ==
  wpc = "returned" =>
    LET r == fetch_whois_data(wdomain, wnet) IN
    /\ winfo = r.info
    /\ (wcaught # None) = r.caught
    /\ r.conns = (IF sock2 = "none" THEN 1 ELSE 2)

\* ------------------------------------------------------------ read_xlsx run
SharedSample == << <<"example.com">>, << >>, <<" ">> >>

RowSamples ==
  { << >>,
    <<Cell("s", TextV(<<"0">>))>>,
    <<Cell("s", TextV(<<"1">>)), Cell("n", TextV(<<"x.com">>))>>,
    <<Cell("s", TextV(<<"2">>))>>,
    <<Cell("s", TextV(<<"-1">>))>>,
    <<Cell("s", TextV(<<"7">>))>>,
    <<Cell("s", TextV(<<"abc">>))>>,
    <<Cell("s", NoV)>>,
    <<Cell("s", EmptyV)>>,
    <<Cell("n", TextV(<<" ", "test.org", " ">>)), Cell("s", TextV(<<"0">>))>>,
    <<Cell("n", TextV(<<" ">>))>>,
    <<Cell("n", NoV), Cell("n", TextV(<<"y.com">>))>>,
    <<Cell("n", EmptyV)>> }

Books ==
  {BadZip}
    \cup {Book(sh, st) : sh \in {NoPart, BadPart, Part(SharedSample)},
                         st \in {NoPart, BadPart}}
    \cup {Book(sh, Part(rows)) : sh \in {NoPart, Part(SharedSample)},
                                 rows \in SeqsUpTo(RowSamples, MaxRows)}

InitXlsx ==
  /\ MainStart(Args(NoAdd, NoFileArg, FALSE), NoFile)
  /\ WhoisIdle
  /\ xpc = "call"
  /\ xbook \in Books
  /\ xres = [raised |-> FALSE, value |-> << >>]

\* read_xlsx returning its list
X_Returns ==
  /\ xpc = "call"
  /\ ~read_xlsx(xbook).raised
  /\ xres' = read_xlsx(xbook)
  /\ xpc' = "returned"
  /\ UNCHANGED << mainVars, whoisVars, xbook >>

\* read_xlsx raising
X_Raises ==
  /\ xpc = "call"
  /\ read_xlsx(xbook).raised
  /\ xres' = read_xlsx(xbook)
  /\ xpc' = "raised"
  /\ UNCHANGED << mainVars, whoisVars, xbook >>

NextXlsx ==
  \/ X_Returns
  \/ X_Raises

SpecXlsx == InitXlsx /\ [][NextXlsx]_vars

\* ------------------------------------------------------------------ claims
DomainsOf(recs) == [i \in 1..Len(recs) |-> recs[i]["domain"]]

AddNames == IF args.add.given THEN args.add.names ELSE << >>

Ext == lower(splitext(args.file.file.path))

Unsupported ==
  args.file.given /\ Ext \notin {<<".txt">>, <<".csv">>, <<".xls">>, <<".xlsx">>}

\* C1: once the store is loaded, after every add the backing file loads
\* without error to exactly the in-memory sequence, and that sequence is
\* the loaded records followed by the added records in call order.
C1_AddPersistsWholeSequence ==
  (pc # "start" /\ failure # "TypeError") =>
    /\ domains = load(disk0) \o added
    /\ ~load_raises(disk)
    /\ load(disk) = domains
    /\ (added # << >> => disk.exists /\ Len(disk.data) = Len(disk0.data) + Len(added))

C1_Witness ==
  /\ Len(added) = 2
  /\ Len(disk0.data) = 2
  /\ disk0.data[1] = ObjDomainOnly
  /\ disk0.data[2] = ObjReversed
  /\ added[1] # added[2]

\* C2: the batch is the --add names followed by the file's names; name i is
\* resolved, enriched and stored before name i+1 is resolved, its record
\* being in the backing file by then; --list prints after the last
\* addition; at the end the store is the loaded records followed by one
\* record per batch name, in batch order.
C2_OneAtATimeInBatchOrder ==
  /\ pc \in {"resolve", "enrich", "store", "list"} \/ (pc = "exited" /\ failure = None)
       => toAdd = AddNames \o (IF args.file.given
                               THEN parse_file(args.file.file).value ELSE << >>)
  /\ pc \in {"resolve", "enrich", "store"} =>
       /\ idx \in 1..Len(toAdd)
       /\ Len(added) = idx - 1
       /\ ~listed
  /\ pc \in {"enrich", "store"} =>
       info["domain"] = toAdd[idx] /\ info["timestamp"] = utcnow
  /\ pc \in {"resolve", "enrich", "store", "list"} \/ (pc = "exited" /\ failure = None) =>
       /\ disk = (IF added = << >> THEN disk0 ELSE save(loaded \o added))
       /\ domains = loaded \o added
       /\ DomainsOf(added) = SubSeq(toAdd, 1, Len(added))
       /\ diskWrites = Len(added)
  /\ (pc = "list" \/ (pc = "exited" /\ failure = None)) => Len(added) = Len(toAdd)
  /\ listed => /\ pc = "exited"
               /\ Len(added) = Len(toAdd)
               /\ out = [i \in 1..Len(domains) |-> asdict(domains[i])]

C2_Witness ==
  /\ pc = "exited"
  /\ listed
  /\ Len(AddNames) = 2
  /\ AddNames[1] # AddNames[2]
  /\ Len(toAdd) = 3
  /\ Len(loaded) = 1
  /\ Len(out) = 4

\* C3 as stated: the unsupported-file-type error comes before any network
\* activity and before any reading or writing of the backing file.
C3_RaisedBeforeAnyStoreActivity ==
  (Unsupported /\ failure = "ValueError") =>
    /\ netConns = 0 /\ diskReads = 0 /\ diskWrites = 0
    /\ added = << >> /\ disk = disk0

\* C3 amended: with an unsupported extension the run ends in an error
\* before any WHOIS connection and any write; the store has been loaded by
\* then (one read of an existing backing file), and a failing load ends the
\* run first; no name, --add names included, is resolved, prompted for or
\* appended, nothing is listed, the backing file is unchanged.
C3_RaisedBeforeNetworkAndWrites ==
  Unsupported =>
    /\ pc \in {"start", "collect", "exited"}
    /\ pc = "exited" => failure = (IF load_raises(disk0) THEN "TypeError" ELSE "ValueError")
    /\ failure = "ValueError" => diskReads = (IF disk0.exists THEN 1 ELSE 0)
    /\ netConns = 0 /\ diskWrites = 0
    /\ toAdd = << >> /\ added = << >> /\ info = NewInfo(<< >>)
    /\ ~listed /\ out = << >>
    /\ disk = disk0

C3_Witness ==
  /\ Unsupported
  /\ failure = "ValueError"
  /\ Len(AddNames) = 2
  /\ disk0.exists /\ disk0.data # << >>
  /\ diskReads = 1

\* C4: with nothing to add (no --add or no names, no --file or a file that
\* gives no name) the backing file is never written: it stays absent or
\* keeps its content.
NothingToAdd ==
  /\ AddNames = << >>
  /\ args.file.given =>
       parse_file(args.file.file).raised \/ parse_file(args.file.file).value = << >>

C4_EmptyInputWritesNothing ==
  NothingToAdd => disk = disk0 /\ diskWrites = 0 /\ added = << >>

C4_Witness ==
  /\ pc = "exited" /\ failure = None
  /\ args.add.given /\ args.add.names = << >>
  /\ args.file.given /\ Ext = <<".txt">>
  /\ listed /\ Len(out) = 1
  /\ disk0 = FileOf(<<ObjDomainOnly>>)

\* C9: a malformed .xls/.xlsx file does not end the run: parse_file reports
\* it and gives no name, the --add names are resolved, enriched and stored
\* in order, and the file adds no record.
MalformedXlsx ==
  /\ args.file.given
  /\ Ext \in {<<".xls">>, <<".xlsx">>}
  /\ read_xlsx(args.file.file.book).raised

C9_MalformedXlsxIsNotFatal ==
  MalformedXlsx =>
    /\ failure # "ValueError"
    /\ pc \notin {"start", "collect"} /\ failure = None =>
         reported /\ toAdd = AddNames
    /\ pc = "exited" /\ failure = None =>
         domains = loaded \o added /\ DomainsOf(added) = AddNames

C9_Witness ==
  /\ MalformedXlsx
  /\ args.file.file.book = BadIndexBook
  /\ pc = "exited" /\ failure = None
  /\ Len(added) = 2
  /\ reported

\* C10 as stated: load fails whenever a stored object's members differ from
\* the 13 fields, a missing member included.
C10_AnyFieldSetDifferenceFails ==
  (pc # "start" /\ disk0.exists
     /\ \E i \in 1..Len(disk0.data) : Keys(disk0.data[i]) # Fields)
    => failure = "TypeError"

\* C10 amended: load fails exactly when a stored object has a member that
\* is no field or has no domain member; a missing member other than domain
\* is filled with ""; an absent backing file gives an empty store.
C10_LoadFailsOnExtraOrNoDomain ==
  pc # "start" =>
    /\ failure = "TypeError" <=>
         /\ disk0.exists
         /\ \E i \in 1..Len(disk0.data) :
              \/ \E m \in Range(disk0.data[i]) : m[1] \notin Fields
              \/ \A m \in Range(disk0.data[i]) : m[1] # "domain"
    /\ failure # "TypeError" =>
         /\ Len(loaded) = Len(disk0.data)
         /\ \A i \in 1..Len(loaded) : \A f \in Fields :
              \/ \E m \in Range(disk0.data[i]) : m[1] = f /\ m[2] = loaded[i][f]
              \/ /\ \A m \in Range(disk0.data[i]) : m[1] # f
                 /\ loaded[i][f] = << >>
    /\ ~disk0.exists => failure # "TypeError" /\ loaded = << >>

C10_Witness ==
  /\ pc = "collect"
  /\ Len(loaded) = 2
  /\ disk0.data[1] = ObjOneMissing
  /\ disk0.data[2] = ObjDomainOnly
  /\ loaded[2]["name_server"] = << >>
  /\ loaded[1]["name_server"] = <<"ns0">>

\* -- what the WHOIS claims speak of, stated on the response text itself
Min(S) == CHOOSE x \in S : \A y \in S : x <= y
Max(S) == CHOOSE x \in S : \A y \in S : x >= y

\* s without its leading and trailing white space
Trimmed(s) ==
  LET black == {i \in 1..Len(s) : ~IsSpace(s[i])}
  IN  IF black = {} THEN << >> ELSE SubSeq(s, Min(black), Max(black))

HasColon(line) == \E i \in 1..Len(line) : line[i] = ":"

\* the trimmed text after the first colon of a line that has one
Value(line) ==
  Trimmed(SubSeq(line, Min({i \in 1..Len(line) : line[i] = ":"}) + 1, Len(line)))

StartsWithWhois(line) ==
  Len(line) >= 2 /\ LowerAtom(line[1]) = "whois" /\ line[2] = ":"

Matches(line) == IsRegistration(line) \/ IsExpiration(line) \/ IsNameServer(line)

\* the lines before the first matching line that has no colon
Scanned(lines) ==
  LET bad == {k \in 1..Len(lines) : Matches(lines[k]) /\ ~HasColon(lines[k])}
  IN  IF bad = {} THEN lines ELSE SubSeq(lines, 1, Min(bad) - 1)

LastValue(lines, S) == IF S = {} THEN << >> ELSE Value(lines[Max(S)])

\* the values of the lines at the positions S, in response order
Entries(lines, S) ==
  LET at == SelectSeq([i \in 1..Len(lines) |-> i], LAMBDA i : i \in S)
  IN  [k \in 1..Len(at) |-> Value(lines[at[k]])]

RECURSIVE CommaJoin(_)
CommaJoin(entries) ==
  IF entries = << >> THEN << >>
  ELSE IF Len(entries) = 1 THEN entries[1]
  ELSE entries[1] \o <<",">> \o CommaJoin(Tail(entries))

RECURSIVE DropLeadingEmpty(_)
DropLeadingEmpty(entries) ==
  IF entries # << >> /\ Head(entries) = << >>
  THEN DropLeadingEmpty(Tail(entries)) ELSE entries

RegistrationAt(lines) == {i \in 1..Len(lines) : IsRegistration(lines[i])}
ExpirationAt(lines) == {i \in 1..Len(lines) : IsExpiration(lines[i])}
NameServerAt(lines) == {i \in 1..Len(lines) : IsNameServer(lines[i])}

\* the fields the scan leaves in info, by the rule of lines 149-158
FieldsAsScanned(lines) ==
  /\ winfo["registration_date"] = LastValue(lines, RegistrationAt(lines))
  /\ winfo["expiration_date"] =
       LastValue(lines, ExpirationAt(lines) \ RegistrationAt(lines))
  /\ winfo["name_server"] =
       CommaJoin(DropLeadingEmpty(Entries(lines,
         NameServerAt(lines) \ (RegistrationAt(lines) \cup ExpirationAt(lines)))))

WhoisFieldsEmpty ==
  /\ winfo["registration_date"] = << >>
  /\ winfo["expiration_date"] = << >>
  /\ winfo["name_server"] = << >>

OtherFieldsAsCreated ==
  /\ winfo["domain"] = wdomain
  /\ winfo["timestamp"] = utcnow
  /\ \A f \in Fields \ {"domain", "timestamp", "registration_date",
                        "expiration_date", "name_server"} : winfo[f] = << >>

C6_SecondHopOnlyAfterReferral ==
  /\ (wnet.c1 /\ wnet.x1 /\ \A i \in 1..Len(wnet.r1) : ~StartsWithWhois(wnet.r1[i])) =>
       /\ sock2 = "none"
       /\ wcaught = None
       /\ wpc \in {"call", "connect1", "transfer1", "close1", "return", "returned"}
       /\ wpc \in {"return", "returned"} => OtherFieldsAsCreated /\ WhoisFieldsEmpty
  /\ (sock2 # "none" \/ wpc = "connect2") =>
       /\ sock1 = "closed"
       /\ wserver.found
       /\ wserver.host # << >>
       /\ \E i \in 1..Len(wnet.r1) :
            /\ StartsWithWhois(wnet.r1[i])
            /\ \A j \in 1..(i - 1) : ~StartsWithWhois(wnet.r1[j])
            /\ wserver.host = Value(wnet.r1[i])

C6_Witness ==
  /\ wpc = "returned"
  /\ wnet.r1 = << <<" ", "whois", ":", "whois.nic">> >>
  /\ wnet.c2 /\ wnet.x2 /\ wnet.r2 = Answer
  /\ sock1 = "closed"
  /\ sock2 = "none"

\* C7 as stated (for responses whose matching lines all have a colon): the
\* last line containing a registration pattern gives registrationDate, the
\* last line containing an expiration pattern gives expirationDate, and all
\* lines starting with "name server" give nameServer, one entry each.
C7_LastLineWinsAllNameServers ==
  (wpc = "returned" /\ sock2 = "closed" /\ Scanned(wnet.r2) = wnet.r2) =>
    /\ winfo["registration_date"] = LastValue(wnet.r2, RegistrationAt(wnet.r2))
    /\ winfo["expiration_date"] = LastValue(wnet.r2, ExpirationAt(wnet.r2))
    /\ winfo["name_server"] = CommaJoin(Entries(wnet.r2, NameServerAt(wnet.r2)))

\* C7 amended: over the lines before the first matching line without a
\* colon, registrationDate is the value of the last line containing a
\* registration pattern; expirationDate that of the last line containing an
\* expiration pattern and no registration pattern; nameServer the values of
\* the lines starting with "name server" that contain no date pattern,
\* comma-joined in order, duplicates kept, empty values before the first
\* non-empty one dropped.
C7_LastLineWinsByBranchOrder ==
  (wpc = "returned" /\ sock2 = "closed") => FieldsAsScanned(Scanned(wnet.r2))

C7_Witness ==
  /\ wpc = "returned"
  /\ wnet.r2 = << <<"Registry", "Expiry Date", ":", " ", "2030">>,
                  <<"Name Server", ":", " ", "ns1">>,
                  <<"Expiration Date", ":", "2031", ":", "00">> >>
  /\ winfo["expiration_date"] = <<"2031", ":", "00">>
  /\ winfo["name_server"] = <<"ns1">>

\* C8: read_xlsx returns, in row order, the trimmed first-cell value of
\* every row whose first cell resolves to a value that is not empty after
\* trimming; it never returns an empty string.
ResolvedFirstCells ==
  LET rows == SelectSeq(xbook.sheet.items, LAMBDA r : r # << >>)
      shared == IF xbook.shared.present THEN xbook.shared.items ELSE << >>
  IN  [i \in 1..Len(rows) |-> Trimmed(CellValue(rows[i][1], shared))]

C8_SkipsRowsEmptyAfterTrimming ==
  xpc = "returned" =>
    /\ xres.value = SelectSeq(ResolvedFirstCells, LAMBDA v : v # << >>)
    /\ \A i \in 1..Len(xres.value) : xres.value[i] # << >>

====
